---- MODULE Spec2Model ----
(***************************************************************************)
(* The project registry of App (processedFiles, activeFile) and the        *)
(* generation orchestrator of EditorView (the generate effect, the file    *)
(* and image readers, the form and its buttons).                           *)
(*                                                                         *)
(* Strings are sequences of one-character strings, so that trim, includes, *)
(* startsWith, split and + are computed as the code computes them.  null   *)
(* is the one-element sequence <<"null">>, which is no such string.        *)
(*                                                                         *)
(* One step of the model is one task of the browser's event loop: a user   *)
(* event, the completion of a FileReader, a chunk handed to the stream     *)
(* callback, the settling of the streaming call.  A step holds the state   *)
(* updates of its handler, the render they cause and the passive effect    *)
(* of that render.                                                         *)
(***************************************************************************)
EXTENDS Naturals, Sequences, FiniteSets

VARIABLES
    processedFiles,   \* App: Record<string, ProcessedFile>
    activeFile,       \* App: string | null
    isLoading,        \* EditorView
    error,            \* EditorView: string | null
    validationError,  \* EditorView: string | null
    pastedCode,       \* EditorView
    inputFileName,    \* EditorView
    imagePreview,     \* EditorView: string | null
    imageBase64,      \* EditorView: string | null
    imageMimeType,    \* EditorView: string | null
    gens,             \* the calls of generateHtmlForProjectStream in flight
    started,          \* the number of calls made so far (history)
    reads,            \* handleFileChange invocations awaiting Promise.all
    imageRead,        \* the pending FileReader of handleImageChange, if any
    ev                \* the event of the last step (history)

vars == <<processedFiles, activeFile, isLoading, error, validationError,
          pastedCode, inputFileName, imagePreview, imageBase64, imageMimeType,
          gens, started, reads, imageRead, ev>>

-----------------------------------------------------------------------------
(* Bounds *)

MaxGens == 2      \* calls of the streaming service in one run
MaxChunks == 2    \* chunks one call delivers
MaxFiles == 2     \* files in one selection of the file input
MaxReads == 1     \* handleFileChange invocations pending at once

-----------------------------------------------------------------------------
(* Strings *)

Null == <<"null">>
Empty == <<>>

NameA == <<"a", ".", "j", "s">>
NameB == <<"b", ".", "j", "s">>
Code1 == <<"1">>
Blank == <<" ", "\n">>
NoExt == <<"n", "o", "t", "e", "s">>
TrailingDot == <<"a", ".">>
ImagePng == <<"i", "m", "a", "g", "e", "/", "p", "n", "g">>
TextPlain == <<"t", "e", "x", "t", "/", "p", "l", "a", "i", "n">>
Base64Data == <<"Q", "Q">>

IsSpace(c) == c \in {" ", "\t", "\n"}

RECURSIVE TrimStart(_)
TrimStart(s) ==
    IF s # <<>> /\ IsSpace(Head(s)) THEN TrimStart(Tail(s)) ELSE s

RECURSIVE TrimEnd(_)
TrimEnd(s) ==
    IF s # <<>> /\ IsSpace(s[Len(s)]) THEN TrimEnd(SubSeq(s, 1, Len(s) - 1)) ELSE s

Trim(s) == TrimEnd(TrimStart(s))

Includes(s, c) == \E i \in 1..Len(s) : s[i] = c

StartsWith(s, prefix) ==
    /\ Len(prefix) <= Len(s)
    /\ SubSeq(s, 1, Len(prefix)) = prefix

DigitChars == <<"0", "1", "2", "3", "4", "5", "6", "7", "8", "9">>

RECURSIVE NumberToString(_)
NumberToString(n) ==
    IF n < 10 THEN <<DigitChars[n + 1]>>
    ELSE NumberToString(n \div 10) \o <<DigitChars[(n % 10) + 1]>>

\* result.split(',')[1]: the text between the first and the second comma
RECURSIVE UpToComma(_)
UpToComma(s) ==
    IF s = <<>> \/ Head(s) = "," THEN <<>> ELSE <<Head(s)>> \o UpToComma(Tail(s))

RECURSIVE AfterComma(_)
AfterComma(s) ==
    IF s = <<>> THEN Null
    ELSE IF Head(s) = "," THEN UpToComma(Tail(s))
    ELSE AfterComma(Tail(s))

\* FileReader.readAsDataURL
DataUrl(type, data) ==
    <<"d", "a", "t", "a", ":">> \o type
        \o <<";", "b", "a", "s", "e", "6", "4", ",">> \o data

-----------------------------------------------------------------------------
(* Inputs *)

\* A selection of the file input: up to MaxFiles files named a.js or b.js,
\* the same name more than once included; the text of the i-th file is i.
FileNames == {NameA, NameB}
FileList(names) ==
    [i \in 1..Len(names) |-> [name |-> names[i], code |-> NumberToString(i)]]
FileLists == {FileList(names) : names \in UNION {[1..n -> FileNames] : n \in 1..MaxFiles}}
PastedCodes == {Code1}
InputFileNames == {NameA}
\* What the two form fields can hold when the form is studied on its own
PastedCodesWide == {Empty, Blank, Code1}
InputFileNamesWide == {Empty, Blank, NoExt, TrailingDot, NameA}
ImageFiles == {[type |-> ImagePng, data |-> Base64Data],
               [type |-> TextPlain, data |-> Base64Data]}
\* The k-th chunk of a stream is the k-th letter or the empty string
ChunkLetters == <<"x", "y", "z", "w", "v", "u">>
ChunkAt(k) == {Empty, <<ChunkLetters[k]>>}
Chunks == UNION {ChunkAt(k) : k \in 1..MaxChunks}
GenerationError == <<"An unknown error occurred.">>

-----------------------------------------------------------------------------
(* App: the registry *)

NewState(files) == [files |-> files, fresh |-> TRUE]
SameState(files) == [files |-> files, fresh |-> FALSE]

\* An insertion that keeps the output of an entry already at the path
GenerationStartMerges(prevFiles, fileData) ==
    LET newFile == [name |-> fileData.name, path |-> fileData.path,
                    sourceFiles |-> fileData.sourceFiles,
                    generatedHtml |-> IF fileData.path \in DOMAIN prevFiles
                                      THEN prevFiles[fileData.path].generatedHtml
                                      ELSE Empty]
    IN NewState([p \in DOMAIN prevFiles \cup {newFile.path} |->
                    IF p = newFile.path THEN newFile ELSE prevFiles[p]])

handleGenerationStart(prevFiles, fileData) ==
    LET newFile == [name |-> fileData.name, path |-> fileData.path,
                    sourceFiles |-> fileData.sourceFiles, generatedHtml |-> Empty]
    IN NewState([p \in DOMAIN prevFiles \cup {newFile.path} |->
                    IF p = newFile.path THEN newFile ELSE prevFiles[p]])

FileNameSet(sourceFiles) == {sourceFiles[i].name : i \in 1..Len(sourceFiles)}

RECURSIVE Filter(_, _)
Filter(newFiles, existingFileNames) ==
    IF newFiles = <<>> THEN <<>>
    ELSE IF Head(newFiles).name \in existingFileNames
         THEN Filter(Tail(newFiles), existingFileNames)
         ELSE <<Head(newFiles)>> \o Filter(Tail(newFiles), existingFileNames)

\* handleAddFilesToProject without the return for an empty uniqueNewFiles
AddFilesAlwaysResets(prev, projectPath, newFiles) ==
    IF projectPath \notin DOMAIN prev THEN SameState(prev)
    ELSE LET project == prev[projectPath]
             uniqueNewFiles == Filter(newFiles, FileNameSet(project.sourceFiles))
         IN NewState([prev EXCEPT ![projectPath] =
                [project EXCEPT
                    !.sourceFiles = project.sourceFiles \o uniqueNewFiles,
                    !.generatedHtml = Empty]])

\* handleAddFilesToProject without the reset of generatedHtml
AddFilesKeepsOutput(prev, projectPath, newFiles) ==
    IF projectPath \notin DOMAIN prev THEN SameState(prev)
    ELSE LET project == prev[projectPath]
             uniqueNewFiles == Filter(newFiles, FileNameSet(project.sourceFiles))
         IN IF Len(uniqueNewFiles) = 0 THEN SameState(prev)
            ELSE NewState([prev EXCEPT ![projectPath] =
                     [project EXCEPT
                         !.sourceFiles = project.sourceFiles \o uniqueNewFiles]])

\* handleAddFilesToProject appending newFiles where it should append
\* uniqueNewFiles
AddFilesAppendsAll(prev, projectPath, newFiles) ==
    IF projectPath \notin DOMAIN prev THEN SameState(prev)
    ELSE LET project == prev[projectPath]
             uniqueNewFiles == Filter(newFiles, FileNameSet(project.sourceFiles))
         IN IF Len(uniqueNewFiles) = 0 THEN SameState(prev)
            ELSE NewState([prev EXCEPT ![projectPath] =
                     [project EXCEPT
                         !.sourceFiles = project.sourceFiles \o newFiles,
                         !.generatedHtml = Empty]])

handleAddFilesToProject(prev, projectPath, newFiles) ==
    IF projectPath \notin DOMAIN prev THEN SameState(prev)
    ELSE LET project == prev[projectPath]
             existingFileNames == FileNameSet(project.sourceFiles)
             uniqueNewFiles == Filter(newFiles, existingFileNames)
         IN IF Len(uniqueNewFiles) = 0 THEN SameState(prev)
            ELSE NewState([prev EXCEPT ![projectPath] =
                     [project EXCEPT
                         !.sourceFiles = project.sourceFiles \o uniqueNewFiles,
                         !.generatedHtml = Empty]])

\* handleStreamUpdate with the operands of + exchanged
StreamUpdatePrepends(prevFiles, path, htmlChunk) ==
    IF path \in DOMAIN prevFiles
    THEN NewState([prevFiles EXCEPT ![path] =
             [@ EXCEPT !.generatedHtml = htmlChunk \o @]])
    ELSE SameState(prevFiles)

\* handleStreamUpdate returning a registry of the updated entry alone
StreamUpdateDropsOthers(prevFiles, path, htmlChunk) ==
    IF path \in DOMAIN prevFiles
    THEN NewState([p \in {path} |->
             [prevFiles[path] EXCEPT !.generatedHtml = @ \o htmlChunk]])
    ELSE SameState(prevFiles)

\* handleStreamUpdate storing the chunk of a path it does not find
StreamUpdateInserts(prevFiles, path, htmlChunk) ==
    IF path \in DOMAIN prevFiles
    THEN NewState([prevFiles EXCEPT ![path] =
             [@ EXCEPT !.generatedHtml = @ \o htmlChunk]])
    ELSE NewState([p \in DOMAIN prevFiles \cup {path} |->
             IF p = path
             THEN [name |-> path, path |-> path, sourceFiles |-> <<>>,
                   generatedHtml |-> htmlChunk]
             ELSE prevFiles[p]])

handleStreamUpdate(prevFiles, path, htmlChunk) ==
    IF path \in DOMAIN prevFiles
    THEN NewState([prevFiles EXCEPT ![path] =
             [@ EXCEPT !.generatedHtml = @ \o htmlChunk]])
    ELSE SameState(prevFiles)

handleReset == NewState(<<>>)

\* activeFile ? processedFiles[activeFile] : null
HasActiveFileData(files, active) == active # Null /\ active \in DOMAIN files

-----------------------------------------------------------------------------
(* EditorView *)

Init ==
    /\ processedFiles = <<>>
    /\ activeFile = Null
    /\ isLoading = FALSE
    /\ error = Null
    /\ validationError = Null
    /\ pastedCode = Empty
    /\ inputFileName = Empty
    /\ imagePreview = Null
    /\ imageBase64 = Null
    /\ imageMimeType = Null
    /\ gens = <<>>
    /\ started = 0
    /\ reads = <<>>
    /\ imageRead = <<>>
    /\ ev = [op |-> "init", path |-> Null, files |-> <<>>, chunk |-> Null,
             before |-> <<>>, err |-> Null]

\* The entry at path before the step, as a sequence of zero or one entries
Before(path) ==
    IF path \in DOMAIN processedFiles THEN <<processedFiles[path]>> ELSE <<>>

\* The event of a step, with the error shown before the step
Event(op, path, files, chunk) ==
    [op |-> op, path |-> path, files |-> files, chunk |-> chunk,
     before |-> Before(path), err |-> error]

\* The condition under which the effect calls generate()
EffectGenerates(files, active) ==
    /\ HasActiveFileData(files, active)
    /\ Len(files[active].sourceFiles) > 0
    /\ files[active].generatedHtml = Empty

\* The dependency list of the effect: activeFile and onStreamUpdate are new
\* objects after every render of App, imageBase64 and imageMimeType are
\* compared by value.
EffectRuns(appRendered, base64, mimeType) ==
    \/ appRendered
    \/ base64 # imageBase64
    \/ mimeType # imageMimeType

NewGeneration(files, active, base64, mimeType) ==
    [path |-> files[active].path,
     sourceFiles |-> files[active].sourceFiles,
     image |-> [data |-> base64, mimeType |-> mimeType],
     chunks |-> <<>>]

\* The render that follows a handler and its effect.  next is the state of
\* App after the handler, loading and err are isLoading and error after it.
Render(next, active, base64, mimeType, loading, err, calls) ==
    LET appRendered == next.fresh \/ active # activeFile
        generate == /\ EffectRuns(appRendered, base64, mimeType)
                    /\ EffectGenerates(next.files, active)
    IN /\ generate => started < MaxGens
       /\ started' = IF generate THEN started + 1 ELSE started
       /\ processedFiles' = next.files
       /\ activeFile' = active
       /\ imageBase64' = base64
       /\ imageMimeType' = mimeType
       /\ gens' = IF generate
                  THEN Append(calls, NewGeneration(next.files, active, base64, mimeType))
                  ELSE calls
       /\ isLoading' = IF generate THEN TRUE ELSE loading
       /\ error' = IF generate THEN Null ELSE err

\* A panel choice that keeps the project view under an error
ViewKeepsProject ==
    IF HasActiveFileData(processedFiles, activeFile) THEN "project"
    ELSE IF error # Null THEN "error"
    ELSE "form"

View ==
    IF error # Null THEN "error"
    ELSE IF HasActiveFileData(processedFiles, activeFile) THEN "project"
    ELSE "form"

SetPastedCode(code) ==
    /\ View = "form"
    /\ pastedCode' = code
    /\ ev' = Event("setPastedCode", Null, <<>>, Null)
    /\ UNCHANGED <<processedFiles, activeFile, isLoading, error, validationError,
                   inputFileName, imagePreview, imageBase64, imageMimeType,
                   gens, started, reads, imageRead>>

SetInputFileName(name) ==
    /\ View = "form"
    /\ inputFileName' = name
    /\ ev' = Event("setInputFileName", Null, <<>>, Null)
    /\ UNCHANGED <<processedFiles, activeFile, isLoading, error, validationError,
                   pastedCode, imagePreview, imageBase64, imageMimeType,
                   gens, started, reads, imageRead>>

processPastedCode(code, name) ==
    handleGenerationStart(processedFiles,
        [name |-> name, path |-> name,
         sourceFiles |-> <<[name |-> name, code |-> code]>>])

PastedCodeError == <<"Please paste some code to convert.">>
FileNameError ==
    <<"Please provide a valid file name with an extension (e.g., script.js).">>

handleGenerateFromText ==
    /\ View = "form"
    /\ ~isLoading
    /\ IF Trim(pastedCode) = Empty
       THEN /\ validationError' = PastedCodeError
            /\ ev' = Event("validation", Null, <<>>, Null)
            /\ UNCHANGED <<processedFiles, activeFile, isLoading, error,
                           imageBase64, imageMimeType, gens, started>>
       ELSE IF Trim(inputFileName) = Empty \/ ~Includes(inputFileName, ".")
       THEN /\ validationError' = FileNameError
            /\ ev' = Event("validation", Null, <<>>, Null)
            /\ UNCHANGED <<processedFiles, activeFile, isLoading, error,
                           imageBase64, imageMimeType, gens, started>>
       ELSE /\ validationError' = Null
            /\ Render(processPastedCode(pastedCode, inputFileName), inputFileName,
                      imageBase64, imageMimeType, isLoading, error, gens)
            /\ ev' = Event("createEntry", inputFileName,
                           <<[name |-> inputFileName, code |-> pastedCode]>>, Null)
    /\ UNCHANGED <<pastedCode, inputFileName, imagePreview, reads, imageRead>>

\* `Project (${projectFiles.length} files)` or the name of the only file
ProjectName(projectFiles) ==
    IF Len(projectFiles) > 1
    THEN <<"P", "r", "o", "j", "e", "c", "t", " ", "(">>
             \o NumberToString(Len(projectFiles))
             \o <<" ", "f", "i", "l", "e", "s", ")">>
    ELSE projectFiles[1].name

RemoveAt(s, i) == SubSeq(s, 1, i - 1) \o SubSeq(s, i + 1, Len(s))

\* The change event of the file input, up to the await: the FileReaders are
\* started and the handler keeps the activeFile of the render it was made in.
\* The input is opened by Select File(s) or Add File(s), both disabled while
\* loading; an empty selection returns at once.
handleFileChange(files) ==
    /\ View \in {"form", "project"}
    /\ ~isLoading
    /\ Len(reads) < MaxReads
    /\ reads' = Append(reads,
           [active |-> IF HasActiveFileData(processedFiles, activeFile)
                       THEN processedFiles[activeFile].path ELSE Null,
            files |-> files])
    /\ ev' = Event("handleFileChange", Null, <<>>, Null)
    /\ UNCHANGED <<processedFiles, activeFile, isLoading, error, validationError,
                   pastedCode, inputFileName, imagePreview, imageBase64,
                   imageMimeType, gens, started, imageRead>>

\* Promise.all resolved: the try block of handleFileChange
FilesRead(i) ==
    /\ i \in 1..Len(reads)
    /\ LET projectFiles == reads[i].files
           active == reads[i].active
           projectName == ProjectName(projectFiles)
       IN IF active # Null
          THEN /\ Render(handleAddFilesToProject(processedFiles, active, projectFiles),
                         activeFile, imageBase64, imageMimeType, isLoading, error, gens)
               /\ ev' = Event("appendSourceFiles", active, projectFiles, Null)
          ELSE /\ Render(handleGenerationStart(processedFiles,
                             [name |-> projectName, path |-> projectName,
                              sourceFiles |-> projectFiles]),
                         projectName, imageBase64, imageMimeType, isLoading, error, gens)
               /\ ev' = Event("createEntry", projectName, projectFiles, Null)
    /\ reads' = RemoveAt(reads, i)
    /\ UNCHANGED <<validationError, pastedCode, inputFileName, imagePreview, imageRead>>

FileReadError(name) ==
    <<"File Read Error: ", "Failed to read file: ">> \o name

\* A catch block that still adds the files read before the one that failed
FileReadFailedKeepsRead(i, k) ==
    /\ i \in 1..Len(reads)
    /\ k \in 1..Len(reads[i].files)
    /\ LET readFiles == SubSeq(reads[i].files, 1, k - 1)
           active == reads[i].active
       IN Render(IF active # Null /\ readFiles # <<>>
                 THEN handleAddFilesToProject(processedFiles, active, readFiles)
                 ELSE SameState(processedFiles),
                 activeFile, imageBase64, imageMimeType, isLoading,
                 FileReadError(reads[i].files[k].name), gens)
    /\ reads' = RemoveAt(reads, i)
    /\ ev' = Event("fileReadFailed", reads[i].active, reads[i].files, Null)
    /\ UNCHANGED <<validationError, pastedCode, inputFileName, imagePreview,
                   imageRead>>

\* Promise.all rejected with the error of the file at k: the catch block
FileReadFailed(i, k) ==
    /\ i \in 1..Len(reads)
    /\ k \in 1..Len(reads[i].files)
    /\ error' = FileReadError(reads[i].files[k].name)
    /\ reads' = RemoveAt(reads, i)
    /\ ev' = Event("fileReadFailed", reads[i].active, reads[i].files, Null)
    /\ UNCHANGED <<processedFiles, activeFile, isLoading, validationError,
                   pastedCode, inputFileName, imagePreview, imageBase64,
                   imageMimeType, gens, started, imageRead>>

\* The change event of the image input, opened from the form while no image
\* is previewed: a FileReader is started for an image-typed file.
handleImageChange(file) ==
    /\ View = "form"
    /\ imagePreview = Null
    /\ imageRead' = IF StartsWith(file.type, <<"i", "m", "a", "g", "e", "/">>)
                    THEN <<[result |-> DataUrl(file.type, file.data),
                            type |-> file.type]>>
                    ELSE imageRead
    /\ ev' = Event("handleImageChange", Null, <<>>, Null)
    /\ UNCHANGED <<processedFiles, activeFile, isLoading, error, validationError,
                   pastedCode, inputFileName, imagePreview, imageBase64,
                   imageMimeType, gens, started, reads>>

\* reader.onload of handleImageChange; its three updates make one render
ImageLoaded ==
    /\ imageRead # <<>>
    /\ LET result == imageRead[1].result
       IN /\ imagePreview' = result
          /\ Render(SameState(processedFiles), activeFile, AfterComma(result),
                    imageRead[1].type, isLoading, error, gens)
    /\ imageRead' = <<>>
    /\ ev' = Event("imageLoaded", Null, <<>>, Null)
    /\ UNCHANGED <<validationError, pastedCode, inputFileName, reads>>

removeImage ==
    /\ View = "form"
    /\ imagePreview # Null
    /\ imagePreview' = Null
    /\ Render(SameState(processedFiles), activeFile, Null, Null, isLoading, error, gens)
    /\ ev' = Event("removeImage", Null, <<>>, Null)
    /\ UNCHANGED <<validationError, pastedCode, inputFileName, reads, imageRead>>

\* A reset that empties the registry and leaves the active pointer
ResetKeepsActive ==
    /\ View \in {"error", "project"}
    /\ pastedCode' = Empty
    /\ inputFileName' = Empty
    /\ imagePreview' = Null
    /\ validationError' = Null
    /\ Render(handleReset, activeFile, Null, Null, isLoading, Null, gens)
    /\ ev' = Event("reset", Null, <<>>, Null)
    /\ UNCHANGED <<reads, imageRead>>

\* A reset that leaves the error and the pasted code as they were
ResetKeepsError ==
    /\ View \in {"error", "project"}
    /\ inputFileName' = Empty
    /\ imagePreview' = Null
    /\ validationError' = Null
    /\ Render(handleReset, Null, Null, Null, isLoading, error, gens)
    /\ ev' = Event("reset", Null, <<>>, Null)
    /\ UNCHANGED <<pastedCode, reads, imageRead>>

\* Try Again of the error panel, Start Over of the project view
handleResetAndClear ==
    /\ View \in {"error", "project"}
    /\ pastedCode' = Empty
    /\ inputFileName' = Empty
    /\ imagePreview' = Null
    /\ validationError' = Null
    /\ Render(handleReset, Null, Null, Null, isLoading, Null, gens)
    /\ ev' = Event("reset", Null, <<>>, Null)
    /\ UNCHANGED <<reads, imageRead>>

Running(g) == g \in 1..Len(gens)

\* A chunk callback that writes to whichever entry is active on arrival
StreamChunkToActive(g, chunk) ==
    /\ Running(g)
    /\ Len(gens[g].chunks) < MaxChunks
    /\ chunk \in ChunkAt(Len(gens[g].chunks) + 1)
    /\ Render(handleStreamUpdate(processedFiles, activeFile, chunk), activeFile,
              imageBase64, imageMimeType, isLoading, error,
              [gens EXCEPT ![g].chunks = Append(@, chunk)])
    /\ ev' = Event("appendOutputChunk", gens[g].path, <<>>, chunk)
    /\ UNCHANGED <<validationError, pastedCode, inputFileName, imagePreview,
                   reads, imageRead>>

\* A chunk callback that drops the chunk of a call superseded by a later
\* call for the same path
StreamChunkDropsStale(g, chunk) ==
    /\ Running(g)
    /\ Len(gens[g].chunks) < MaxChunks
    /\ chunk \in ChunkAt(Len(gens[g].chunks) + 1)
    /\ Render(IF \E h \in (g + 1)..Len(gens) : gens[h].path = gens[g].path
              THEN SameState(processedFiles)
              ELSE handleStreamUpdate(processedFiles, gens[g].path, chunk),
              activeFile, imageBase64, imageMimeType, isLoading, error,
              [gens EXCEPT ![g].chunks = Append(@, chunk)])
    /\ ev' = Event("appendOutputChunk", gens[g].path, <<>>, chunk)
    /\ UNCHANGED <<validationError, pastedCode, inputFileName, imagePreview,
                   reads, imageRead>>

\* The chunk callback of the call g: onStreamUpdate(activeFile.path, chunk)
\* with the activeFile of the render whose effect made the call
StreamChunk(g, chunk) ==
    /\ Running(g)
    /\ Len(gens[g].chunks) < MaxChunks
    /\ chunk \in ChunkAt(Len(gens[g].chunks) + 1)
    /\ Render(handleStreamUpdate(processedFiles, gens[g].path, chunk), activeFile,
              imageBase64, imageMimeType, isLoading, error,
              [gens EXCEPT ![g].chunks = Append(@, chunk)])
    /\ ev' = Event("appendOutputChunk", gens[g].path, <<>>, chunk)
    /\ UNCHANGED <<validationError, pastedCode, inputFileName, imagePreview,
                   reads, imageRead>>

\* A return of the call g whose finally block leaves the loading flag set
GenerationDoneKeepsLoading(g) ==
    /\ Running(g)
    /\ gens' = RemoveAt(gens, g)
    /\ ev' = Event("generationDone", gens[g].path, <<>>, gens[g].chunks)
    /\ UNCHANGED <<processedFiles, activeFile, isLoading, error, validationError,
                   pastedCode, inputFileName, imagePreview, imageBase64,
                   imageMimeType, started, reads, imageRead>>

\* The awaited call g returns: the finally block
GenerationDone(g) ==
    /\ Running(g)
    /\ gens' = RemoveAt(gens, g)
    /\ isLoading' = FALSE
    /\ ev' = Event("generationDone", gens[g].path, <<>>, gens[g].chunks)
    /\ UNCHANGED <<processedFiles, activeFile, error, validationError, pastedCode,
                   inputFileName, imagePreview, imageBase64, imageMimeType,
                   started, reads, imageRead>>

\* GenerationFailed with the entry of the call cleared in the catch block
GenerationFailedClears(g) ==
    /\ Running(g)
    /\ gens' = RemoveAt(gens, g)
    /\ error' = GenerationError
    /\ isLoading' = FALSE
    /\ processedFiles' = [p \in DOMAIN processedFiles |->
           IF p = gens[g].path
           THEN [processedFiles[p] EXCEPT !.generatedHtml = Empty]
           ELSE processedFiles[p]]
    /\ ev' = Event("generationFailed", gens[g].path, <<>>, gens[g].chunks)
    /\ UNCHANGED <<activeFile, validationError, pastedCode,
                   inputFileName, imagePreview, imageBase64, imageMimeType,
                   started, reads, imageRead>>

\* The awaited call g throws: the catch block, then the finally block
GenerationFailed(g) ==
    /\ Running(g)
    /\ gens' = RemoveAt(gens, g)
    /\ error' = GenerationError
    /\ isLoading' = FALSE
    /\ ev' = Event("generationFailed", gens[g].path, <<>>, gens[g].chunks)
    /\ UNCHANGED <<processedFiles, activeFile, validationError, pastedCode,
                   inputFileName, imagePreview, imageBase64, imageMimeType,
                   started, reads, imageRead>>

Next ==
    \/ \E code \in PastedCodes : SetPastedCode(code)
    \/ \E name \in InputFileNames : SetInputFileName(name)
    \/ handleGenerateFromText
    \/ \E files \in FileLists : handleFileChange(files)
    \/ \E i \in 1..MaxReads : FilesRead(i)
    \/ \E i \in 1..MaxReads, k \in 1..MaxFiles : FileReadFailed(i, k)
    \/ \E file \in ImageFiles : handleImageChange(file)
    \/ ImageLoaded
    \/ removeImage
    \/ handleResetAndClear
    \/ \E g \in 1..MaxGens, chunk \in Chunks : StreamChunk(g, chunk)
    \/ \E g \in 1..MaxGens : GenerationDone(g)
    \/ \E g \in 1..MaxGens : GenerationFailed(g)

Spec == Init /\ [][Next]_vars

\* The pasted-code form on its own: any text in the two fields, no file
\* input and no image.
NextForm ==
    \/ \E code \in PastedCodesWide : SetPastedCode(code)
    \/ \E name \in InputFileNamesWide : SetInputFileName(name)
    \/ handleGenerateFromText
    \/ handleResetAndClear
    \/ \E g \in 1..MaxGens : \E chunk \in Chunks : StreamChunk(g, chunk)
    \/ \E g \in 1..MaxGens : GenerationDone(g)
    \/ \E g \in 1..MaxGens : GenerationFailed(g)

SpecForm == Init /\ [][NextForm]_vars

\* Every call of the streaming service returns or throws in the end: the
\* promise the effect awaits is settled.
Settles == \E g \in 1..MaxGens : GenerationDone(g) \/ GenerationFailed(g)
SpecFair == Spec /\ WF_vars(Settles)

-----------------------------------------------------------------------------
(* Properties *)

RECURSIVE Concat(_)
Concat(chunks) ==
    IF chunks = <<>> THEN <<>> ELSE Head(chunks) \o Concat(Tail(chunks))

\* An appendSourceFiles that found its entry, and the names it found there
Appended == ev.op = "appendSourceFiles" /\ ev.before # <<>>
ExistingNames == FileNameSet(ev.before[1].sourceFiles)
AddsUnique == \E i \in 1..Len(ev.files) : ev.files[i].name \notin ExistingNames
AddsDuplicate == \E i \in 1..Len(ev.files) : ev.files[i].name \in ExistingNames

\* C1: a call of the streaming service is made only by the createEntry or the
\* appendSourceFiles that empties the output of the active entry, and each of
\* these makes exactly one call; no other event makes a call.
C1_ExactlyOnce ==
    [][/\ started' > started =>
            /\ ev'.op \in {"createEntry", "appendSourceFiles"}
            /\ ev'.path = activeFile'
       /\ ev'.op = "createEntry" => started' = started + 1]_vars

\* C2: a chunk applied to an existing entry leaves its generatedHtml equal to
\* the value before the call followed by the chunk, so chunks accumulate in
\* the order of the calls.
C2_ChunkOrder ==
    (ev.op = "appendOutputChunk" /\ ev.before # <<>>) =>
        /\ ev.path \in DOMAIN processedFiles
        /\ processedFiles[ev.path].generatedHtml
               = ev.before[1].generatedHtml \o ev.chunk

C2_Witness ==
    /\ ev.op = "appendOutputChunk"
    /\ ev.before # <<>>
    /\ ev.before[1].generatedHtml # Empty
    /\ ev.chunk # Empty
    /\ ev.chunk # ev.before[1].generatedHtml

\* C3: appendSourceFiles for a path that is not in the registry, or with files
\* whose names are all in the entry already, changes neither the registry nor
\* the active pointer and starts no generation.
C3_AppendNoOp ==
    [][(/\ ev'.op = "appendSourceFiles"
        /\ \/ ev'.path \notin DOMAIN processedFiles
           \/ \A i \in 1..Len(ev'.files) :
                 ev'.files[i].name
                     \in FileNameSet(processedFiles[ev'.path].sourceFiles))
       => /\ processedFiles' = processedFiles
          /\ activeFile' = activeFile
          /\ gens' = gens
          /\ started' = started]_vars

C3_Witness ==
    /\ Appended
    /\ ~AddsUnique
    /\ ev.before[1].generatedHtml # Empty
    /\ processedFiles[ev.path] = ev.before[1]

\* C4: appendSourceFiles that finds its entry and brings at least one new name
\* leaves the generatedHtml of the entry empty.
C4_AppendResetsOutput ==
    (Appended /\ AddsUnique) =>
        /\ ev.path \in DOMAIN processedFiles
        /\ processedFiles[ev.path].generatedHtml = Empty

C4_Witness ==
    /\ Appended
    /\ AddsUnique
    /\ AddsDuplicate
    /\ ev.before[1].generatedHtml # Empty

\* C5: appendSourceFiles that adds files leaves sourceFiles equal to the
\* previous sourceFiles followed by the files of newFiles whose name was not
\* in the entry, in the order of newFiles.
C5_AppendOrder ==
    (Appended /\ AddsUnique) =>
        /\ ev.path \in DOMAIN processedFiles
        /\ processedFiles[ev.path].sourceFiles
               = ev.before[1].sourceFiles
                   \o SelectSeq(ev.files, LAMBDA f : f.name \notin ExistingNames)

C5_Witness ==
    /\ Appended
    /\ AddsUnique
    /\ \E i \in 1..Len(ev.files) :
          /\ ev.files[i].name \in ExistingNames
          /\ \A j \in 1..Len(ev.before[1].sourceFiles) :
                ev.before[1].sourceFiles[j] # ev.files[i]

\* C6: no entry of the registry holds two source files of the same name.
C6_NamesUnique ==
    \A p \in DOMAIN processedFiles :
        \A i, j \in 1..Len(processedFiles[p].sourceFiles) :
            processedFiles[p].sourceFiles[i].name
                = processedFiles[p].sourceFiles[j].name => i = j

\* C7: a chunk that arrives while the registry is empty leaves the registry
\* empty and the active pointer null, and starts no generation.
C7_ChunkAfterReset ==
    [][(ev'.op = "appendOutputChunk" /\ processedFiles = <<>>)
       => /\ processedFiles' = <<>>
          /\ activeFile' = Null
          /\ activeFile = Null
          /\ started' = started]_vars

C7_Witness ==
    /\ ev.op = "appendOutputChunk"
    /\ ev.chunk # Empty
    /\ ev.before = <<>>
    /\ processedFiles = <<>>
    /\ activeFile = Null

C9_LoadingCoversInFlight == gens # <<>> => isLoading

\* C10: at most one call of the streaming service is in flight.
C10_OneInFlight == Len(gens) <= 1

\* C11: while the error of a failed call is shown, a call of the streaming
\* service is started only by a createEntry or an appendSourceFiles; no chunk,
\* completion or reader event starts one.
C11_NoAutomaticRetry ==
    [][(error = GenerationError /\ started' > started)
       => ev'.op \in {"createEntry", "appendSourceFiles"}]_vars

\* A dot followed by at least one character
HasExtension(name) == \E i \in 1..(Len(name) - 1) : name[i] = "."
Submitted == ev'.op \in {"validation", "createEntry"} /\ reads' = reads

\* C12: submitting pasted code fails with a validation message and leaves the
\* registry alone if the code is empty or whitespace-only or the file name
\* has no dot-delimited extension; otherwise it creates the one entry named
\* and keyed by the file name, holding the pasted code, with empty output.
C12_PastedInputValidation ==
    [][Submitted =>
        IF Trim(pastedCode) = Empty \/ ~HasExtension(inputFileName)
        THEN /\ ev'.op = "validation"
             /\ validationError' # Null
             /\ processedFiles' = processedFiles
             /\ activeFile' = activeFile
        ELSE /\ ev'.op = "createEntry"
             /\ DOMAIN processedFiles' = DOMAIN processedFiles \cup {inputFileName}
             /\ processedFiles'[inputFileName] =
                    [name |-> inputFileName, path |-> inputFileName,
                     sourceFiles |-> <<[name |-> inputFileName, code |-> pastedCode]>>,
                     generatedHtml |-> Empty]]_vars

\* C13: when one file of a selection cannot be read, the step shows one
\* error naming a file of the selection and performs neither createEntry
\* nor appendSourceFiles: the registry, the active pointer and the calls
\* of the streaming service are as before, whatever else was read.
C13_FileReadAllOrNothing ==
    [][ev'.op = "fileReadFailed" =>
        /\ processedFiles' = processedFiles
        /\ activeFile' = activeFile
        /\ started' = started
        /\ gens' = gens
        /\ \E k \in 1..Len(ev'.files) : error' = FileReadError(ev'.files[k].name)]_vars

\* The second of two files failed, after a first one the active entry does
\* not have, and the entry is as it was.
C13_Witness ==
    /\ ev.op = "fileReadFailed"
    /\ Len(ev.files) = 2
    /\ ev.files[1].name # ev.files[2].name
    /\ error = FileReadError(ev.files[2].name)
    /\ ev.before # <<>>
    /\ ev.path = activeFile
    /\ ev.files[1].name \notin FileNameSet(ev.before[1].sourceFiles)
    /\ processedFiles[ev.path] = ev.before[1]

\* C14: a createEntry step leaves at its path an entry with the given name
\* and source files and empty output, whatever entry was there before, makes
\* that path the active one, and leaves the entries at other paths alone.
C14_CreateEntry ==
    [][ev'.op = "createEntry" =>
        /\ DOMAIN processedFiles' = DOMAIN processedFiles \cup {ev'.path}
        /\ processedFiles'[ev'.path] =
               [name |-> ev'.path, path |-> ev'.path,
                sourceFiles |-> ev'.files, generatedHtml |-> Empty]
        /\ activeFile' = ev'.path
        /\ \A p \in DOMAIN processedFiles \ {ev'.path} :
               processedFiles'[p] = processedFiles[p]]_vars

\* An entry that already had output was replaced
C14_Witness ==
    /\ ev.op = "createEntry"
    /\ ev.before # <<>>
    /\ ev.before[1].generatedHtml # Empty
    /\ processedFiles[ev.path].generatedHtml = Empty
    /\ activeFile = ev.path

\* C15: right after the reset the registry is empty, the active pointer,
\* the error and the validation error are null, and the pasted code, the
\* file name and the image data, MIME type and preview are cleared, whatever
\* was in flight or shown before.
C15_FullReset ==
    ev.op = "reset" =>
        /\ processedFiles = <<>>
        /\ activeFile = Null
        /\ error = Null
        /\ validationError = Null
        /\ pastedCode = Empty
        /\ inputFileName = Empty
        /\ imageBase64 = Null
        /\ imageMimeType = Null
        /\ imagePreview = Null

\* A reset from the error panel while a call is still in flight
C15_Witness ==
    /\ ev.op = "reset"
    /\ ev.err # Null
    /\ gens # <<>>
    /\ isLoading

\* The call g is in flight and a later call for the same path is too
Superseded(g) == \E h \in (g + 1)..Len(gens) : gens[h].path = gens[g].path
\* The step is the delivery of a chunk by the call g
Delivers(g) ==
    /\ ev'.op = "appendOutputChunk"
    /\ ev'.path = gens[g].path
    /\ gens'[g].chunks = Append(gens[g].chunks, ev'.chunk)

\* C16: a chunk delivered by a call that a later call for the same path has
\* superseded is still concatenated onto the output of the entry now at
\* that path: nothing cancels the earlier call, chunks go by path only.
C16_StaleChunksApplied ==
    [][\A g \in 1..Len(gens) :
        (Delivers(g) /\ Superseded(g) /\ ev'.path \in DOMAIN processedFiles)
        => processedFiles'[ev'.path].generatedHtml =
               processedFiles[ev'.path].generatedHtml \o ev'.chunk]_vars

\* The output "xy" of an entry re-created while its first call was in
\* flight: "x" is the first chunk of the second call, "y" the second chunk
\* of the first.
C16_Witness ==
    /\ ev.op = "appendOutputChunk"
    /\ Len(gens) = 2
    /\ gens[1].path = gens[2].path
    /\ ev.path = gens[1].path
    /\ gens[1].chunks = << <<"x">>, <<"y">> >>
    /\ gens[2].chunks = << <<"x">> >>
    /\ ev.chunk = <<"y">>
    /\ ev.path \in DOMAIN processedFiles
    /\ processedFiles[ev.path].generatedHtml = <<"x", "y">>

\* The controls that open the file input are offered
AddFilesOffered == View \in {"form", "project"} /\ ~isLoading
\* The events a click or a keystroke of the user starts
UserEvents ==
    {"setPastedCode", "setInputFileName", "validation", "handleFileChange",
     "handleImageChange", "removeImage", "reset"}

\* C17, as stated: in every state where the error of a failed generation is
\* shown for an active entry, adding files to that entry is available.
C17_RetryAvailable ==
    (error = GenerationError /\ HasActiveFileData(processedFiles, activeFile))
        => AddFilesOffered

\* C17, amended: while the error of a failed generation is shown, the only
\* event the user can start is the reset; no file selection and no paste
\* submission is possible, and the reset leaves an empty registry with no
\* error, the entry's files and output gone.
C17_RecoveryIsReset ==
    [][error = GenerationError =>
        /\ (ev'.op \in UserEvents \/ Submitted) => ev'.op = "reset"
        /\ ev'.op = "reset" =>
               (processedFiles' = <<>> /\ error' = Null /\ started' = started)]_vars

\* Try Again was pressed on the error of a failed call
C17_Witness ==
    /\ ev.op = "reset"
    /\ ev.err = GenerationError
    /\ processedFiles = <<>>
    /\ View = "form"

\* The call of the streaming service a step has started
Started == gens'[Len(gens')]

\* C18: a call of the streaming service is started only when the active
\* entry has source files and an empty output, and it is given the path and
\* the whole current source files of that entry (after an append: the old
\* files followed by the files kept of the selection); a chunk goes to the
\* entry at the path of its call, and the entries at other paths, the
\* active one included, are as before.
C18_TriggerAndPayload ==
    [][/\ started' > started =>
            /\ HasActiveFileData(processedFiles', activeFile')
            /\ processedFiles'[activeFile'].sourceFiles # <<>>
            /\ processedFiles'[activeFile'].generatedHtml = Empty
            /\ Started.path = activeFile'
            /\ Started.sourceFiles = processedFiles'[activeFile'].sourceFiles
            /\ Started.chunks = <<>>
            /\ (ev'.op = "appendSourceFiles" /\ ev'.before # <<>>
                    /\ ev'.path = activeFile') =>
                   Started.sourceFiles =
                       ev'.before[1].sourceFiles
                           \o Filter(ev'.files, FileNameSet(ev'.before[1].sourceFiles))
       /\ ev'.op = "appendOutputChunk" =>
            /\ \E g \in 1..Len(gens) : Delivers(g)
            /\ ev'.path \in DOMAIN processedFiles =>
                   processedFiles'[ev'.path].generatedHtml =
                       processedFiles[ev'.path].generatedHtml \o ev'.chunk
            /\ \A p \in DOMAIN processedFiles \ {ev'.path} :
                   processedFiles'[p] = processedFiles[p]]_vars

\* A chunk arrived for an entry that is no longer the active one
C18_Witness ==
    /\ ev.op = "appendOutputChunk"
    /\ activeFile # Null
    /\ ev.path # activeFile
    /\ ev.path \in DOMAIN processedFiles
    /\ activeFile \in DOMAIN processedFiles
    /\ ev.chunk # Empty
    /\ processedFiles[ev.path].generatedHtml = ev.before[1].generatedHtml \o ev.chunk

\* C19: a chunk step changes nothing but the output of the entry at its
\* path: the registry keeps its keys, that entry keeps its name, path and
\* source files, every other entry and the active pointer are as before,
\* and with no entry at the path the registry is as before.
C19_ChunkFrame ==
    [][ev'.op = "appendOutputChunk" =>
        /\ DOMAIN processedFiles' = DOMAIN processedFiles
        /\ activeFile' = activeFile
        /\ \A p \in DOMAIN processedFiles :
               IF p = ev'.path
               THEN processedFiles'[p] =
                        [processedFiles[p] EXCEPT
                            !.generatedHtml = processedFiles'[p].generatedHtml]
               ELSE processedFiles'[p] = processedFiles[p]
        /\ ev'.path \notin DOMAIN processedFiles => processedFiles' = processedFiles]_vars

\* A chunk was stored in one of two entries
C19_Witness ==
    /\ ev.op = "appendOutputChunk"
    /\ ev.chunk # Empty
    /\ ev.before # <<>>
    /\ ev.path \in DOMAIN processedFiles
    /\ \E p \in DOMAIN processedFiles : p # ev.path
    /\ processedFiles[ev.path].sourceFiles = ev.before[1].sourceFiles
    /\ processedFiles[ev.path].generatedHtml # ev.before[1].generatedHtml

\* C20: the active pointer is null or a key of the registry, and null
\* exactly when the registry is empty; the entry under a key has that key
\* as its path and at least one source file.
C20_ActivePointerConsistent ==
    /\ activeFile = Null \/ activeFile \in DOMAIN processedFiles
    /\ activeFile = Null <=> processedFiles = <<>>
    /\ \A k \in DOMAIN processedFiles :
           /\ processedFiles[k].path = k
           /\ processedFiles[k].sourceFiles # <<>>

\* Two entries, the active one the one created last
C20_Witness ==
    /\ activeFile # Null
    /\ activeFile \in DOMAIN processedFiles
    /\ \E p \in DOMAIN processedFiles : p # activeFile
    /\ ev.op = "createEntry"
    /\ ev.path = activeFile

\* C21: whenever the loading flag is set a call of the streaming service is
\* in flight, and, every call settling in the end, a set loading flag is
\* cleared later on.
C21_LoadingNeverStuck ==
    /\ [](isLoading => gens # <<>>)
    /\ isLoading ~> ~isLoading

\* The form after a reset, its buttons disabled by the call still in flight
C21_Witness ==
    /\ isLoading
    /\ gens # <<>>
    /\ processedFiles = <<>>
    /\ View = "form"

====
